---------------------------- MODULE Spec2Model ----------------------------
(***************************************************************************)
(* A model of script.py: the mailbox run of get_messages and the pure      *)
(* field pipeline transform_messages_of_llm -> collect_informations ->     *)
(* convert_to_dataframe.                                                   *)
(*                                                                         *)
(* Text is a sequence of Unicode code points (Python str), so that the     *)
(* character classes of the patterns, str.strip and the "R$ " prefix are   *)
(* computed on characters as the code computes them.                       *)
(***************************************************************************)
EXTENDS Integers, Sequences, FiniteSets, TLC

VARIABLES
    \* ---- get_messages ----
    mailbox,            \* the server's messages of All Mail, in server order
    seen,               \* seen[i]: the Seen flag of message i on the server
    session,            \* the authenticated session: "unopened", "open", "loggedout"
    pc,                 \* position of get_messages
    cursor,             \* index of the last message the fetch generator yielded
    cur,                \* index of the message bound to msg (0: none yet)
    email_text,         \* the text extracted from msg.html
    all_informations,   \* the list built in the with block
    outcome,            \* how get_messages completes: a return value or a raise
    error,              \* the call that failed ("none": no failure)
    attempts,           \* how often each external call was started
    trail,              \* indices of the messages handed to the extraction, in order
    skipped,            \* indices of the fetched messages the if skipped, in order
    \* ---- field pipeline ----
    fpc,                \* position of the field pipeline
    response,           \* argument of transform_messages_of_llm
    buyers, banks, amounts,               \* the three parsed sequences
    buyer_list, bank_list, amount_list,   \* the three assembled lists
    df                  \* the table of convert_to_dataframe

mvars == <<mailbox, seen, session, pc, cursor, cur, email_text, all_informations,
           outcome, error, attempts, trail, skipped>>
fvars == <<fpc, response, buyers, banks, amounts, buyer_list, bank_list,
           amount_list, df>>
vars == <<mvars, fvars>>

(***************************************************************************)
(* Bounds of the model.                                                    *)
(***************************************************************************)
\* the longest mailbox
MaxMessages == 3
\* the most lines of a model reply
MaxLines == 3
\* the longest sequence handed directly to collect_informations
MaxLen == 2

(***************************************************************************)
(* Text.                                                                   *)
(***************************************************************************)
\* the characters U+0030..U+005A and U+0061..U+007A, in code point order
DigitsToUpperZ == "0123456789:;<=>?@ABCDEFGHIJKLMNOPQRSTUVWXYZ"
LowerAToZ == "abcdefghijklmnopqrstuvwxyz"

\* the code point of an ASCII character of the literals of script.py
Ord(c) ==
    CASE c = " " -> 32
      [] c = "$" -> 36
      [] c = "," -> 44
      [] c = "-" -> 45
      [] c = "." -> 46
      [] \E i \in 1..Len(DigitsToUpperZ) : SubSeq(DigitsToUpperZ, i, i) = c ->
            47 + (CHOOSE i \in 1..Len(DigitsToUpperZ) : SubSeq(DigitsToUpperZ, i, i) = c)
      [] \E i \in 1..Len(LowerAToZ) : SubSeq(LowerAToZ, i, i) = c ->
            96 + (CHOOSE i \in 1..Len(LowerAToZ) : SubSeq(LowerAToZ, i, i) = c)

\* a printable ASCII literal as a sequence of code points
Str(lit) == [i \in 1..Len(lit) |-> Ord(SubSeq(lit, i, i))]

NL == <<10>>
TAB == <<9>>

\* Py_UNICODE_ISSPACE: the characters of \s and of str.strip()
Whitespace == {9, 10, 11, 12, 13, 28, 29, 30, 31, 32, 133, 160, 5760, 8232, 8233, 8239, 8287, 12288}
                  \cup (8192..8202)

\* the digit zero of every decimal digit block of Unicode 14 (Nd), each
\* followed by its digits one to nine
DecimalZeros ==
    {48, 1632, 1776, 1984, 2406, 2534, 2662, 2790, 2918, 3046, 3174, 3302,
     3430, 3558, 3664, 3792, 3872, 4160, 4240, 6112, 6160, 6470, 6608,
     6784, 6800, 6992, 7088, 7232, 7248, 42528, 43216, 43264, 43472, 43504,
     43600, 44016, 65296, 66720, 68912, 69734, 69872, 69942, 70096, 70384,
     70736, 70864, 71248, 71360, 71472, 71904, 72016, 72784, 73040, 73120,
     92768, 92864, 93008, 123200, 123632, 125264, 130032}

\* Py_UNICODE_ISDECIMAL: the 660 characters of \d, the blocks of DecimalZeros
\* and the mathematical digits U+1D7CE..U+1D7FF
Decimal == UNION {z..(z + 9) : z \in DecimalZeros} \cup (120782..120831)

\* [A-Z\u00c0-\u00da]: A-Z and U+00C0..U+00DA
UpperClass == (65..90) \cup (192..218)

\* [a-z\u00e0-\u00fa]: a-z and U+00E0..U+00FA
LowerClass == (97..122) \cup (224..250)

\* "N\u00e3o encontrado"
Sentinel == Str("N") \o <<227>> \o Str("o encontrado")

\* str.strip(): leading and trailing whitespace removed
RECURSIVE LStrip(_)
LStrip(s) == IF s # <<>> /\ Head(s) \in Whitespace THEN LStrip(Tail(s)) ELSE s

RECURSIVE RStrip(_)
RStrip(s) ==
    IF s # <<>> /\ s[Len(s)] \in Whitespace THEN RStrip(SubSeq(s, 1, Len(s) - 1)) ELSE s

Strip(s) == RStrip(LStrip(s))

(***************************************************************************)
(* Regular expressions, as re matches them: a backtracking matcher.        *)
(* Ends(r, s, i) is the sequence of the positions where a match of r       *)
(* starting at position i of s can end, in the order the matcher tries     *)
(* them (greedy repetition: longest first; alternation: left first); its   *)
(* head is the match re finds.                                             *)
(***************************************************************************)
Inf == 1000000

Lit(s) == [t |-> "lit", s |-> s]
Cls(set) == [t |-> "cls", in |-> set, neg |-> FALSE]
NotCls(set) == [t |-> "cls", in |-> set, neg |-> TRUE]
Cat(rs) == [t |-> "cat", rs |-> rs]
Alt(rs) == [t |-> "alt", rs |-> rs]
Rep(r, lo, hi) == [t |-> "rep", r |-> r, lo |-> lo, hi |-> hi]

\* the least element of a non-empty set of positions
Least(S) == CHOOSE x \in S : \A y \in S : x <= y

\* greedy c{lo,hi} for a character class c: the run of class characters from
\* i, longest first, down to lo characters
EndsRun(r, s, i) ==
    LET stop == Least({j \in i..(Len(s) + 1) :
                          j = Len(s) + 1 \/ ((s[j] \in r.r.in) = r.r.neg)})
        most == IF stop - i <= r.hi THEN stop - i ELSE r.hi
    IN  IF i > Len(s) + 1 \/ most < r.lo THEN <<>>
        ELSE [k \in 1..(most - r.lo + 1) |-> i + most - k + 1]

RECURSIVE Ends(_, _, _), EndsCat(_, _, _, _), CatOver(_, _, _, _),
          EndsAlt(_, _, _, _), EndsRep(_, _, _, _), RepOver(_, _, _, _, _)

Ends(r, s, i) ==
    CASE r.t = "lit" ->
            IF i + Len(r.s) - 1 <= Len(s) /\ SubSeq(s, i, i + Len(r.s) - 1) = r.s
            THEN <<i + Len(r.s)>> ELSE <<>>
      [] r.t = "cls" ->
            IF i <= Len(s) /\ ((s[i] \in r.in) # r.neg) THEN <<i + 1>> ELSE <<>>
      [] r.t = "cat" -> EndsCat(r.rs, 1, s, i)
      [] r.t = "alt" -> EndsAlt(r.rs, 1, s, i)
      [] r.t = "rep" -> IF r.r.t = "cls" THEN EndsRun(r, s, i) ELSE EndsRep(r, 0, s, i)

\* the items rs[k..] in sequence from i
EndsCat(rs, k, s, i) ==
    IF k > Len(rs) THEN <<i>> ELSE CatOver(Ends(rs[k], s, i), rs, k + 1, s)

CatOver(es, rs, k, s) ==
    IF es = <<>> THEN <<>>
    ELSE EndsCat(rs, k, s, Head(es)) \o CatOver(Tail(es), rs, k, s)

\* the alternatives rs[k..], left first
EndsAlt(rs, k, s, i) ==
    IF k > Len(rs) THEN <<>> ELSE Ends(rs[k], s, i) \o EndsAlt(rs, k + 1, s, i)

\* greedy r{lo,hi} after n repetitions: one more repetition first, then stop
EndsRep(r, n, s, i) ==
    (IF n < r.hi THEN RepOver(Ends(r.r, s, i), r, n + 1, s, i) ELSE <<>>)
        \o (IF n >= r.lo THEN <<i>> ELSE <<>>)

RepOver(es, r, n, s, i) ==
    IF es = <<>> THEN <<>>
    ELSE (IF Head(es) > i THEN EndsRep(r, n, s, Head(es)) ELSE <<>>)
            \o RepOver(Tail(es), r, n, s, i)

\* A pattern of the form  pre(grp): the match at i, as the span of its one group
NoMatch == [found |-> FALSE, from |-> 0, to |-> 0]

RECURSIVE FirstGroup(_, _, _)
FirstGroup(pres, grp, s) ==
    IF pres = <<>> THEN NoMatch
    ELSE LET g == Ends(grp, s, Head(pres))
         IN  IF g # <<>> THEN [found |-> TRUE, from |-> Head(pres), to |-> Head(g)]
             ELSE FirstGroup(Tail(pres), grp, s)

MatchAt(p, s, i) == FirstGroup(Ends(p.pre, s, i), p.grp, s)

\* re.findall(p, s) for a pattern with one group: the group's text of each
\* non-overlapping match, scanning left to right
RECURSIVE FindFrom(_, _, _)
FindFrom(p, s, i) ==
    LET hits == {j \in i..(Len(s) + 1) : MatchAt(p, s, j).found}
    IN  IF hits = {} THEN <<>>
        ELSE LET j == Least(hits)
                 m == MatchAt(p, s, j)
             IN  <<SubSeq(s, m.from, m.to - 1)>>
                    \o FindFrom(p, s, IF m.to > j THEN m.to ELSE j + 1)

FindAll(p, s) == FindFrom(p, s, 1)

Space == Cls(Whitespace)
Digit == Cls(Decimal)
Upper == Cls(UpperClass)
Lower == Cls(LowerClass)

\* "Informa\u00e7\u00e3o " and "Total L\u00edquido:"
Informacao == Str("Informa") \o <<231, 227>> \o Str("o ")
TotalLiquido == Str("Total L") \o <<237>> \o Str("quido:")

\* (?:Informa\u00e7\u00e3o do pagador:|Pagador:)\s*([A-Z\u00c0-\u00da][a-z\u00e0-\u00fa]+(?:\s+[A-Z\u00c0-\u00da][a-z\u00e0-\u00fa]+)+)
buyer_pattern ==
    [pre |-> Cat(<<Alt(<<Lit(Informacao \o Str("do pagador:")), Lit(Str("Pagador:"))>>),
                   Rep(Space, 0, Inf)>>),
     grp |-> Cat(<<Upper, Rep(Lower, 1, Inf),
                   Rep(Cat(<<Rep(Space, 1, Inf), Upper, Rep(Lower, 1, Inf)>>), 1, Inf)>>)]

\* (?:Banco Pagador:|Informa\u00e7\u00e3o sobre o banco:)\s*([^\n]+)
bank_pattern ==
    [pre |-> Cat(<<Alt(<<Lit(Str("Banco Pagador:")), Lit(Informacao \o Str("sobre o banco:"))>>),
                   Rep(Space, 0, Inf)>>),
     grp |-> Rep(NotCls({10}), 1, Inf)]

\* (?:Total L\u00edquido:|Informa\u00e7\u00e3o do pagamento:)\s*(?:\n\s*)?R\$ ?(\d{1,3}(?:\.\d{3})*,\d{2})
amount_pattern ==
    [pre |-> Cat(<<Alt(<<Lit(TotalLiquido), Lit(Informacao \o Str("do pagamento:"))>>),
                   Rep(Space, 0, Inf),
                   Rep(Cat(<<Lit(NL), Rep(Space, 0, Inf)>>), 0, 1),
                   Lit(Str("R$")),
                   Rep(Lit(Str(" ")), 0, 1)>>),
     grp |-> Cat(<<Rep(Digit, 1, 3),
                   Rep(Cat(<<Lit(Str(".")), Rep(Digit, 3, 3)>>), 0, Inf),
                   Lit(Str(",")),
                   Rep(Digit, 2, 2)>>)]

\* transform_messages_of_llm(response): (buyers, banks, amounts)
transform_messages_of_llm(r) ==
    [buyers |-> FindAll(buyer_pattern, r),
     banks |-> FindAll(bank_pattern, r),
     amounts |-> FindAll(amount_pattern, r)]

(***************************************************************************)
(* collect_informations and convert_to_dataframe.                          *)
(***************************************************************************)
Max2(a, b) == IF a >= b THEN a ELSE b

\* mutant of Total: the shortest input decides, as zip() would
Total_Shortest(b, k, a) ==
    IF Len(b) <= Len(k) /\ Len(b) <= Len(a) THEN Len(b)
    ELSE IF Len(k) <= Len(a) THEN Len(k) ELSE Len(a)

\* total = max(len(buyers), len(banks), len(amounts))
Total(b, k, a) == Max2(Len(b), Max2(Len(k), Len(a)))

\* buyers[i] if i < len(buyers) else "N\u00e3o encontrado"     (i from 1 here)
BuyerAt(b, i) == IF i <= Len(b) THEN b[i] ELSE Sentinel

\* banks[i].strip() if i < len(banks) else "N\u00e3o encontrado"
BankAt(k, i) == IF i <= Len(k) THEN Strip(k[i]) ELSE Sentinel

\* mutant of AmountAt: the prefix is applied after the default is chosen
AmountAt_PrefixAlways(a, i) == Str("R$ ") \o (IF i <= Len(a) THEN a[i] ELSE Sentinel)

\* f"R$ {amounts[i]}" if i < len(amounts) else "N\u00e3o encontrado"
AmountAt(a, i) == IF i <= Len(a) THEN Str("R$ ") \o a[i] ELSE Sentinel

\* collect_informations(buyers, banks, amounts): the loop over range(total)
collect_informations(b, k, a) ==
    [buyer_list |-> [i \in 1..Total(b, k, a) |-> BuyerAt(b, i)],
     bank_list |-> [i \in 1..Total(b, k, a) |-> BankAt(k, i)],
     amount_list |-> [i \in 1..Total(b, k, a) |-> AmountAt(a, i)]]

\* convert_to_dataframe: pd.DataFrame of three columns; columns of unequal
\* length raise ValueError
convert_to_dataframe(bl, kl, al) ==
    IF Len(bl) = Len(kl) /\ Len(kl) = Len(al)
    THEN [ok |-> TRUE,
          rows |-> [i \in 1..Len(bl) |-> [COMPRADOR |-> bl[i], BANCO |-> kl[i], VALOR |-> al[i]]]]
    ELSE [ok |-> FALSE, rows |-> <<>>]

(***************************************************************************)
(* The field pipeline as a state machine: each function is called on       *)
(* inputs drawn from bounded sets.                                         *)
(***************************************************************************)
\* the reply of the scenario:
\* "Pagador: Maria Silva\nBanco Pagador: Banco do Brasil\nTotal Liquido: R$ 1.234,56"
ScenarioLines ==
    <<Str("Pagador: Maria Silva"),
      Str("Banco Pagador: Banco do Brasil"),
      TotalLiquido \o Str(" R$ 1.234,56")>>

\* the lines model replies are made of; the last but one writes its amount
\* with the digits U+0967 (Devanagari one) and U+FF12, U+FF13 (fullwidth)
LinePool ==
    {ScenarioLines[1], ScenarioLines[2], ScenarioLines[3],
     Informacao \o Str("do pagamento:"),
     Str("R$ 999,00"),
     Str("- Pagador: Ana Li"),
     TotalLiquido \o Str(" R$ ") \o <<2407, 44, 65298, 65299>>,
     <<>>}

\* "\n".join(lines)
RECURSIVE Join(_)
Join(lines) ==
    IF lines = <<>> THEN <<>>
    ELSE IF Len(lines) = 1 THEN lines[1]
    ELSE lines[1] \o NL \o Join(Tail(lines))

SeqsUpTo(S, n) == UNION {[1..m -> S] : m \in 0..n}

Replies == {Join(ls) : ls \in SeqsUpTo(LinePool, MaxLines)}

ScenarioReply == Join(ScenarioLines)

\* values handed directly to collect_informations
BuyerPool == {Str("Ana Li"), <<>>}
BankPool == {Str("X"), Str(" X "), TAB \o Str("Banco do Brasil") \o NL, Str("  ")}
AmountPool == {Str("1.234,56"), Str("999,00")}

NoTable == [ok |-> FALSE, rows |-> <<>>]

FieldsIdle ==
    /\ fpc = "idle"
    /\ response = <<>>
    /\ buyers = <<>> /\ banks = <<>> /\ amounts = <<>>
    /\ buyer_list = <<>> /\ bank_list = <<>> /\ amount_list = <<>>
    /\ df = NoTable

\* buyers, banks, amounts = transform_messages_of_llm(response)
Transform ==
    /\ fpc = "idle"
    /\ \E r \in Replies :
          /\ response' = r
          /\ buyers' = transform_messages_of_llm(r).buyers
          /\ banks' = transform_messages_of_llm(r).banks
          /\ amounts' = transform_messages_of_llm(r).amounts
    /\ fpc' = "parsed"
    /\ UNCHANGED <<buyer_list, bank_list, amount_list, df, mvars>>

\* collect_informations called on arbitrary sequences
Arguments ==
    /\ fpc = "idle"
    /\ \E b \in SeqsUpTo(BuyerPool, MaxLen), k \in SeqsUpTo(BankPool, MaxLen),
          a \in SeqsUpTo(AmountPool, MaxLen) :
          /\ buyers' = b
          /\ banks' = k
          /\ amounts' = a
    /\ fpc' = "parsed"
    /\ UNCHANGED <<response, buyer_list, bank_list, amount_list, df, mvars>>

\* buyer_list, bank_list, amount_list = collect_informations(buyers, banks, amounts)
Collect ==
    /\ fpc = "parsed"
    /\ buyer_list' = collect_informations(buyers, banks, amounts).buyer_list
    /\ bank_list' = collect_informations(buyers, banks, amounts).bank_list
    /\ amount_list' = collect_informations(buyers, banks, amounts).amount_list
    /\ fpc' = "collected"
    /\ UNCHANGED <<response, buyers, banks, amounts, df, mvars>>

\* df = convert_to_dataframe(buyer_list, bank_list, amount_list)
Convert ==
    /\ fpc = "collected"
    /\ df' = convert_to_dataframe(buyer_list, bank_list, amount_list)
    /\ fpc' = "table"
    /\ UNCHANGED <<response, buyers, banks, amounts, buyer_list, bank_list,
                   amount_list, mvars>>


(***************************************************************************)
(* get_messages: one run against a mailbox.                                *)
(***************************************************************************)
\* msg.html of a message: no html part, an empty html part, an html body
HtmlValues ==
    {[present |-> FALSE, text |-> ""],
     [present |-> TRUE, text |-> ""],
     [present |-> TRUE, text |-> "<p>Pix recebido</p>"]}

\* a message of the folder: whether its sender is comunicacao@pagbank.com.br,
\* its html, and its Seen flag when the run starts
Messages == [from_pagbank : BOOLEAN, html : HtmlValues, seen : BOOLEAN]

Mailboxes == SeqsUpTo(Messages, MaxMessages)

\* mutant of Truthy: `if msg.html is not None:`
Truthy_IsNotNone(h) == h.present

\* soup.get_text(separator="\n", strip=True) of the html bodies of HtmlValues
get_text(h) == IF h.text = "<p>Pix recebido</p>" THEN "Pix recebido" ELSE ""

\* `if msg.html:` -- None and "" are false
Truthy(h) == h.present /\ h.text # ""

\* mutant of mark_seen: the argument left out (the library's default)
mark_seen_default == TRUE

\* fetch(..., mark_seen=False)
mark_seen == FALSE

\* the replies the model gives
ModelAnswers == {ScenarioReply, <<>>}

Running == [kind |-> "running", list |-> <<>>]
Raised == [kind |-> "raised", list |-> <<>>]
ReturnedNone == [kind |-> "None", list |-> <<>>]
ReturnedList(l) == [kind |-> "list", list |-> l]

\* AND(from_=...): the indices after i of the messages the server-side filter keeps
MatchingAfter(i) == {j \in (i + 1)..Len(mailbox) : mailbox[j].from_pagbank}

MailIdle ==
    /\ seen = [i \in 1..Len(mailbox) |-> mailbox[i].seen]
    /\ session = "unopened"
    /\ pc = "start"
    /\ cursor = 0
    /\ cur = 0
    /\ email_text = ""
    /\ all_informations = <<>>
    /\ outcome = Running
    /\ error = "none"
    /\ attempts = [login |-> 0, fetch |-> 0, model |-> 0]
    /\ trail = <<>>
    /\ skipped = <<>>

\* MailBox("imap.gmail.com").login(...) returns and the with block is entered;
\* all_informations = []
Login ==
    /\ pc = "start"
    /\ attempts' = [attempts EXCEPT !.login = @ + 1]
    /\ session' = "open"
    /\ all_informations' = <<>>
    /\ pc' = "fetch"
    /\ UNCHANGED <<mailbox, seen, cursor, cur, email_text, outcome, error, trail,
                   skipped, fvars>>

\* MailBox("imap.gmail.com") cannot connect, or login(...) is refused: no
\* session is opened, the with block is never entered and the exception leaves
\* get_messages
LoginFails ==
    /\ pc = "start"
    /\ attempts' = [attempts EXCEPT !.login = @ + 1]
    /\ error' = "login"
    /\ outcome' = Raised
    /\ pc' = "done"
    /\ UNCHANGED <<mailbox, seen, session, cursor, cur, email_text, all_informations,
                   trail, skipped, fvars>>

\* login(..., initial_folder="[Gmail]/All Mail") authenticates and then fails to
\* select the folder: the call raises before the with statement has the
\* mailbox, so no __exit__ runs and the authenticated session is left open
SelectFolderFails ==
    /\ pc = "start"
    /\ attempts' = [attempts EXCEPT !.login = @ + 1]
    /\ session' = "open"
    /\ error' = "login"
    /\ outcome' = Raised
    /\ pc' = "done"
    /\ UNCHANGED <<mailbox, seen, cursor, cur, email_text, all_informations,
                   trail, skipped, fvars>>

\* the for statement asks the fetch generator for the next message and gets one
FetchYields ==
    /\ pc = "fetch"
    /\ MatchingAfter(cursor) # {}
    /\ LET j == Least(MatchingAfter(cursor))
       IN  /\ cursor' = j
           /\ cur' = j
           /\ seen' = [seen EXCEPT ![j] = IF mark_seen THEN TRUE ELSE @]
    /\ attempts' = [attempts EXCEPT !.fetch = @ + 1]
    /\ pc' = "test"
    /\ UNCHANGED <<mailbox, session, email_text, all_informations, outcome, error,
                   trail, skipped, fvars>>

\* mutant of FetchExhausted: `return all_informations` after the loop
FetchExhausted_ReturnsList ==
    /\ pc = "fetch"
    /\ MatchingAfter(cursor) = {}
    /\ attempts' = [attempts EXCEPT !.fetch = @ + 1]
    /\ outcome' = ReturnedList(all_informations)
    /\ pc' = "exit"
    /\ UNCHANGED <<mailbox, seen, session, cursor, cur, email_text, all_informations,
                   error, trail, skipped, fvars>>

\* the generator is exhausted: the loop ends, the with block and the function
\* fall through (no return statement: None)
FetchExhausted ==
    /\ pc = "fetch"
    /\ MatchingAfter(cursor) = {}
    /\ attempts' = [attempts EXCEPT !.fetch = @ + 1]
    /\ outcome' = ReturnedNone
    /\ pc' = "exit"
    /\ UNCHANGED <<mailbox, seen, session, cursor, cur, email_text, all_informations,
                   error, trail, skipped, fvars>>

\* the search or the fetch of the next message raises
FetchFails ==
    /\ pc = "fetch"
    /\ attempts' = [attempts EXCEPT !.fetch = @ + 1]
    /\ error' = "fetch"
    /\ outcome' = Raised
    /\ pc' = "exit"
    /\ UNCHANGED <<mailbox, seen, session, cursor, cur, email_text, all_informations,
                   trail, skipped, fvars>>

\* if msg.html:
TestHtml ==
    /\ pc = "test"
    /\ IF Truthy(mailbox[cur].html)
       THEN pc' = "extract" /\ UNCHANGED skipped
       ELSE pc' = "fetch" /\ skipped' = Append(skipped, cur)
    /\ UNCHANGED <<mailbox, seen, session, cursor, cur, email_text, all_informations,
                   outcome, error, attempts, trail, fvars>>

\* mutant of Extract: the with block ends after the extraction, the model is
\* called outside it
Extract_ThenLogout ==
    /\ pc = "extract"
    /\ email_text' = get_text(mailbox[cur].html)
    /\ trail' = Append(trail, cur)
    /\ session' = "loggedout"
    /\ pc' = "invoke"
    /\ UNCHANGED <<mailbox, seen, cursor, cur, all_informations, outcome,
                   error, attempts, skipped, fvars>>

\* soup = BeautifulSoup(msg.html, "html.parser"); email_text = soup.get_text(...)
Extract ==
    /\ pc = "extract"
    /\ email_text' = get_text(mailbox[cur].html)
    /\ trail' = Append(trail, cur)
    /\ pc' = "invoke"
    /\ UNCHANGED <<mailbox, seen, session, cursor, cur, all_informations, outcome,
                   error, attempts, skipped, fvars>>

\* the extraction raises
ExtractFails ==
    /\ pc = "extract"
    /\ trail' = Append(trail, cur)
    /\ error' = "extract"
    /\ outcome' = Raised
    /\ pc' = "exit"
    /\ UNCHANGED <<mailbox, seen, session, cursor, cur, email_text, all_informations,
                   attempts, skipped, fvars>>

\* _reading_gmails(email_text, api_key): chain.invoke(...) is sent
Invoke ==
    /\ pc = "invoke"
    /\ attempts' = [attempts EXCEPT !.model = @ + 1]
    /\ pc' = "waiting"
    /\ UNCHANGED <<mailbox, seen, session, cursor, cur, email_text, all_informations,
                   outcome, error, trail, skipped, fvars>>

\* the model answers: response = ...; all_informations.append(response)
Reply ==
    /\ pc = "waiting"
    /\ \E r \in ModelAnswers : all_informations' = Append(all_informations, r)
    /\ pc' = "return"
    /\ UNCHANGED <<mailbox, seen, session, cursor, cur, email_text, outcome, error,
                   attempts, trail, skipped, fvars>>

\* mutant of ModelFails: the failure is caught and the call made again
ModelFails_Retry ==
    /\ pc = "waiting"
    /\ error' = "model"
    /\ pc' = "invoke"
    /\ UNCHANGED <<mailbox, seen, session, cursor, cur, email_text, all_informations,
                   outcome, attempts, trail, skipped, fvars>>

\* chain.invoke raises
ModelFails ==
    /\ pc = "waiting"
    /\ error' = "model"
    /\ outcome' = Raised
    /\ pc' = "exit"
    /\ UNCHANGED <<mailbox, seen, session, cursor, cur, email_text, all_informations,
                   attempts, trail, skipped, fvars>>

\* mutant of Return: the return statement after the loop, the loop goes on
Return_AfterLoop ==
    /\ pc = "return"
    /\ pc' = "fetch"
    /\ UNCHANGED <<mailbox, seen, session, cursor, cur, email_text, all_informations,
                   outcome, error, attempts, trail, skipped, fvars>>

\* return all_informations, inside the loop and the with block
Return ==
    /\ pc = "return"
    /\ outcome' = ReturnedList(all_informations)
    /\ pc' = "exit"
    /\ UNCHANGED <<mailbox, seen, session, cursor, cur, email_text, all_informations,
                   error, attempts, trail, skipped, fvars>>

\* the with statement's __exit__: the session is logged out, then the return
\* value or the exception leaves get_messages
ExitWith ==
    /\ pc = "exit"
    /\ session' = "loggedout"
    /\ pc' = "done"
    /\ UNCHANGED <<mailbox, seen, cursor, cur, email_text, all_informations, outcome,
                   error, attempts, trail, skipped, fvars>>

Init ==
    /\ mailbox \in Mailboxes
    /\ MailIdle
    /\ FieldsIdle

Next ==
    \/ Login
    \/ LoginFails
    \/ SelectFolderFails
    \/ FetchYields
    \/ FetchExhausted
    \/ FetchFails
    \/ TestHtml
    \/ Extract
    \/ ExtractFails
    \/ Invoke
    \/ Reply
    \/ ModelFails
    \/ Return
    \/ ExitWith

Spec == Init /\ [][Next]_vars

FieldsInit ==
    /\ mailbox = <<>>
    /\ MailIdle
    /\ FieldsIdle

FieldsNext ==
    \/ Transform
    \/ Arguments
    \/ Collect
    \/ Convert

SpecFields == FieldsInit /\ [][FieldsNext]_vars


(***************************************************************************)
(* Properties of the field pipeline, checked under SpecFields.             *)
(***************************************************************************)
\* the greatest of the three input lengths
RowCount ==
    CHOOSE n \in {Len(buyers), Len(banks), Len(amounts)} :
        \A m \in {Len(buyers), Len(banks), Len(amounts)} : n >= m

\* t is s without its leading and trailing whitespace
IsStripOf(t, s) ==
    /\ t = <<>> \/ (t[1] \notin Whitespace /\ t[Len(t)] \notin Whitespace)
    /\ \E a \in 0..Len(s) :
          /\ a + Len(t) <= Len(s)
          /\ \A i \in 1..Len(t) : s[a + i] = t[i]
          /\ \A i \in 1..a : s[i] \in Whitespace
          /\ \A i \in (a + Len(t) + 1)..Len(s) : s[i] \in Whitespace

\* C1: collect_informations returns three lists of length exactly
\* max(len(buyers), len(banks), len(amounts)), whatever the lengths of the
\* inputs (empty and unequal ones included), and the table built from them
\* has that many rows; three empty inputs give zero rows.
C1_RowCountIsMax ==
    /\ fpc \in {"collected", "table"} =>
          /\ Len(buyer_list) = RowCount
          /\ Len(bank_list) = RowCount
          /\ Len(amount_list) = RowCount
    /\ fpc = "table" => df.ok /\ Len(df.rows) = RowCount

C1_Witness ==
    /\ fpc = "table"
    /\ Len(buyers) = 0 /\ Len(banks) = 2 /\ Len(amounts) = 1
    /\ Len(df.rows) = 2

\* C2: row i of collect_informations holds buyers[i], or the sentinel when
\* buyers is too short; banks[i] without its surrounding whitespace, or the
\* sentinel; "R$ " followed by amounts[i], or the bare sentinel without the
\* prefix. Rows follow input order.
C2_RowContents ==
    fpc \in {"collected", "table"} =>
        /\ DOMAIN buyer_list = 1..RowCount
        /\ DOMAIN bank_list = 1..RowCount
        /\ DOMAIN amount_list = 1..RowCount
        /\ \A i \in 1..RowCount :
              /\ buyer_list[i] = IF i <= Len(buyers) THEN buyers[i] ELSE Sentinel
              /\ IF i <= Len(banks) THEN IsStripOf(bank_list[i], banks[i])
                 ELSE bank_list[i] = Sentinel
              /\ IF i <= Len(amounts)
                 THEN /\ Len(amount_list[i]) = 3 + Len(amounts[i])
                      /\ SubSeq(amount_list[i], 1, 3) = <<82, 36, 32>>
                      /\ SubSeq(amount_list[i], 4, Len(amount_list[i])) = amounts[i]
                 ELSE amount_list[i] = Sentinel

C2_Witness ==
    /\ fpc = "collected"
    /\ Len(buyers) = 0 /\ Len(banks) = 2 /\ Len(amounts) = 1
    /\ banks[1] = Str(" X ") /\ bank_list[1] = Str("X")
    /\ banks[2] = Str("  ") /\ bank_list[2] = <<>>
    /\ amount_list[2] = Sentinel

\* C6: for the reply "Pagador: Maria Silva\nBanco Pagador: Banco do Brasil\n
\* Total Liquido: R$ 1.234,56" transform_messages_of_llm gives
\* buyers = ["Maria Silva"], banks = ["Banco do Brasil"], amounts = ["1.234,56"],
\* and collect_informations then gives the one record
\* {"Maria Silva", "Banco do Brasil", "R$ 1.234,56"}.
C6_ScenarioRecord ==
    (response = ScenarioReply /\ fpc \in {"parsed", "collected", "table"}) =>
        /\ buyers = <<Str("Maria Silva")>>
        /\ banks = <<Str("Banco do Brasil")>>
        /\ amounts = <<Str("1.234,56")>>
        /\ fpc \in {"collected", "table"} =>
              /\ buyer_list = <<Str("Maria Silva")>>
              /\ bank_list = <<Str("Banco do Brasil")>>
              /\ amount_list = <<Str("R$ 1.234,56")>>

(***************************************************************************)
(* Properties of get_messages, checked under Spec.                         *)
(***************************************************************************)
\* message i passes the sender filter
FromPagbank(i) == mailbox[i].from_pagbank

\* message i has an html body that is neither absent nor empty
HasHtmlBody(i) == mailbox[i].html.present /\ mailbox[i].html.text # ""

\* the messages the loop got from the fetch so far
Fetched == {skipped[k] : k \in DOMAIN skipped} \cup {trail[k] : k \in DOMAIN trail}
              \cup ({cur} \ {0})

\* C3: once the mailbox session has been opened (the login succeeded), it is
\* logged out on every exit path of get_messages: the return in the loop, the
\* fall-through when the fetch ends, and an exception. No run ends with the
\* session still open.
C3_LoggedOutOnEveryExit ==
    (pc = "done" /\ session # "unopened") => session = "loggedout"

\* C4: a failure of the login, of the fetch or of the model call is fatal:
\* get_messages completes by raising it, starts no further external call
\* after it (no retry) and returns no list, partial or not.
C4_FatalNoRetry ==
    [][error' # "none" =>
          /\ outcome'.kind = "raised"
          /\ outcome'.list = <<>>
          /\ pc' \in {"exit", "done"}
          /\ error # "none" =>
                /\ error' = error
                /\ attempts' = attempts
                /\ all_informations' = all_informations]_vars

C4_Witness ==
    /\ pc = "done"
    /\ error = "model"
    /\ attempts.model = 1
    /\ outcome = Raised

\* C5: the fetch never changes the read/unread status of a message: the Seen
\* flag of every message, fetched or not, processed or not, is what it was
\* when the run started.
C5_SeenUnchanged ==
    /\ DOMAIN seen = 1..Len(mailbox)
    /\ \A i \in 1..Len(mailbox) : seen[i] = mailbox[i].seen

C5_Witness ==
    /\ pc = "done"
    /\ outcome.kind = "list"
    /\ skipped # <<>>
    /\ \A i \in Fetched : ~mailbox[i].seen /\ ~seen[i]
    /\ \E i \in 1..Len(mailbox) : ~FromPagbank(i)

\* C7: get_messages returns right after the first fetched message with an
\* html body was processed: a returned list holds exactly one reply, the
\* model is called at most once per run, and later matching messages are
\* neither fetched nor processed.
C7_FirstHtmlMessageOnly ==
    /\ attempts.model <= 1
    /\ Len(trail) <= 1
    /\ Len(all_informations) <= 1
    /\ outcome.kind = "list" => Len(outcome.list) = 1 /\ Len(trail) = 1
    /\ trail # <<>> =>
          /\ cursor = trail[1]
          /\ FromPagbank(trail[1]) /\ HasHtmlBody(trail[1])
          /\ \A j \in 1..(trail[1] - 1) : ~(FromPagbank(j) /\ HasHtmlBody(j))

C7_Witness ==
    /\ pc = "done"
    /\ outcome.kind = "list"
    /\ \E j \in (cursor + 1)..Len(mailbox) : FromPagbank(j) /\ HasHtmlBody(j)

\* C8: a fetched message whose html is absent or empty is skipped: it is not
\* handed to the extraction, no model call is made for it, it adds nothing to
\* the result, and the loop goes on with the next message the fetch yields,
\* in server order.
C8_SkipWithoutHtml ==
    /\ \A k \in DOMAIN skipped : ~HasHtmlBody(skipped[k])
    /\ \A k \in DOMAIN trail : HasHtmlBody(trail[k])
    /\ \A k \in DOMAIN skipped : \A l \in DOMAIN trail : skipped[k] # trail[l]
    /\ attempts.model <= Len(trail)
    /\ Len(all_informations) <= Len(trail)
    /\ \A k \in DOMAIN skipped :
          /\ k > 1 => skipped[k - 1] < skipped[k]
          /\ cursor > skipped[k] =>
                \E j \in Fetched :
                    /\ j > skipped[k]
                    /\ FromPagbank(j)
                    /\ \A m \in (skipped[k] + 1)..(j - 1) : ~FromPagbank(m)

C8_Witness ==
    /\ pc = "done"
    /\ outcome.kind = "list"
    /\ Len(skipped) = 2
    /\ ~mailbox[skipped[1]].html.present
    /\ mailbox[skipped[2]].html.present
    /\ trail = <<cursor>>

\* C9: when no message passes the sender filter, or none of those that do has
\* an html body, get_messages makes no model call and, unless the login or the
\* fetch fails, completes by returning None, not an empty list; a list is
\* returned only when a message with an html body was processed.
C9_NoneWhenNothingProcessed ==
    /\ (~\E j \in 1..Len(mailbox) : FromPagbank(j) /\ HasHtmlBody(j)) =>
          /\ attempts.model = 0
          /\ trail = <<>>
          /\ error \in {"none", "login", "fetch"}
          /\ outcome.kind # "list"
          /\ (pc = "done" /\ error = "none") => outcome = ReturnedNone
    /\ outcome.kind = "list" => trail # <<>> /\ outcome.list # <<>>

C9_Witness ==
    /\ pc = "done"
    /\ error = "none"
    /\ outcome = ReturnedNone
    /\ skipped # <<>>
    /\ \E i \in 1..Len(mailbox) : ~FromPagbank(i) /\ HasHtmlBody(i)

\* C10: every model call of get_messages is made while the mailbox session is
\* open: it starts after the login and ends, with a reply or a failure, before
\* the logout; no model call is made after the logout.
C10_ModelCallInsideSession ==
    [][(attempts'.model # attempts.model \/ pc = "waiting" \/ pc' = "waiting") =>
          (session = "open" /\ session' = "open")]_vars

C10_Witness ==
    /\ pc = "waiting"
    /\ attempts.model = 1
    /\ attempts.login = 1
    /\ session = "open"

=============================================================================
